---- MODULE Spec2Model ----
(***************************************************************************)
(* Model of the BleTest screen of NeuraLoadAPP (react-native-ble-plx):     *)
(* the scan session, the connect / discover / subscribe / identity-read    *)
(* sequence of connectToDevice, the three notification callbacks with      *)
(* their base64 + float32-LE decoding, disconnectDevice and the effect     *)
(* cleanup that calls it.                                                  *)
(*                                                                         *)
(* React state (useState) is the group of variables allDevices .. deviceID;*)
(* the BleManager side (scan running, links, pending notifications) is the *)
(* group nativeScan .. uncaught.  A Device object returned by              *)
(* bleManager.connectToDevice is identified by the index of the connect    *)
(* attempt that produced it.                                               *)
(***************************************************************************)
EXTENDS Integers, Sequences, FiniteSets, TLC

\* ------------------------------------------------------------------ bounds
MaxAttempts == 1
MaxRacing == 2
MaxNotifs == 1
MaxScans == 2

\* --------------------------------------------------------------- constants
DEVICE_LOCAL_NAME == "NeuraLoad"
NoName == "<no name>"
NoDevice == 0
FloatBytes == 4
ImuFloats == 36
LaserFloats == 4

DeviceIds == {"AA", "BB"}
Names == {DEVICE_LOCAL_NAME, "Other", NoName}
Chans == {"IMU", "LASER", "WEIGHT"}

\* ------------------------------------------------------------------ base64
\* A base64 text is a sequence of symbols: 0..63 are the sextets, Pad is "=".
Pad == 64

RECURSIVE EncodeQuads(_)
EncodeQuads(b) ==
    IF Len(b) = 0 THEN <<>>
    ELSE IF Len(b) = 1 THEN
        <<b[1] \div 4, (b[1] % 4) * 16, Pad, Pad>>
    ELSE IF Len(b) = 2 THEN
        <<b[1] \div 4, (b[1] % 4) * 16 + b[2] \div 16, (b[2] % 16) * 4, Pad>>
    ELSE
        <<b[1] \div 4, (b[1] % 4) * 16 + b[2] \div 16,
          (b[2] % 16) * 4 + b[3] \div 64, b[3] % 64>>
        \o EncodeQuads(SubSeq(b, 4, Len(b)))

\* What the peripheral side does to a byte buffer before it crosses the bridge.
Base64Encode(b) == EncodeQuads(b)

RECURSIVE DecodeQuads(_)
DecodeQuads(s) ==
    IF Len(s) < 2 THEN <<>>
    ELSE IF Len(s) = 2 THEN <<s[1] * 4 + s[2] \div 16>>
    ELSE IF Len(s) = 3 THEN
        <<s[1] * 4 + s[2] \div 16, (s[2] % 16) * 16 + s[3] \div 4>>
    ELSE
        <<s[1] * 4 + s[2] \div 16, (s[2] % 16) * 16 + s[3] \div 4,
          (s[3] % 4) * 64 + s[4]>>
        \o DecodeQuads(SubSeq(s, 5, Len(s)))

\* Buffer.from(text, "base64"): the text up to the first "=" is decoded.
BeforePad(s) ==
    LET pads == {i \in 1..Len(s) : s[i] = Pad}
    IN  IF pads = {} THEN s
        ELSE SubSeq(s, 1, (CHOOSE i \in pads : \A j \in pads : i <= j) - 1)

BufferFromBase64(s) == DecodeQuads(BeforePad(s))

\* ----------------------------------------------------------------- float32
\* A JS number read by readFloatLE: the IEEE-754 single fields of the four
\* bytes, least significant byte first.  Every NaN is the one JS NaN.
Float32(b0, b1, b2, b3) ==
    LET sign == b3 \div 128
        exp  == (b3 % 128) * 2 + b2 \div 128
        man  == (b2 % 128) * 65536 + b1 * 256 + b0
    IN  IF exp = 255 /\ man # 0
        THEN [sign |-> 0, exp |-> 255, man |-> 1]
        ELSE [sign |-> sign, exp |-> exp, man |-> man]

\* buffer.readFloatLE(i) throws RangeError unless 0 <= i <= length - 4.
ReadInRange(buf, i) == i + FloatBytes <= Len(buf)
ReadFloatLE(buf, i) == Float32(buf[i + 1], buf[i + 2], buf[i + 3], buf[i + 4])

\* for (let i = 0; i < buffer.length; i += 4) floats.push(buffer.readFloatLE(i))
RECURSIVE FloatLoop(_, _, _)
FloatLoop(buf, i, floats) ==
    IF i < Len(buf)
    THEN IF ReadInRange(buf, i)
         THEN FloatLoop(buf, i + FloatBytes, Append(floats, ReadFloatLE(buf, i)))
         ELSE [threw |-> TRUE, floats |-> floats]
    ELSE [threw |-> FALSE, floats |-> floats]

ParseFloats(buf) == FloatLoop(buf, 0, <<>>)

Zero == [sign |-> 0, exp |-> 0, man |-> 0]

\* ------------------------------------------------------------------- utf-8
\* buffer.toString("utf-8"): code points; an ill-formed byte becomes U+FFFD.
\* One- and two-byte sequences are decoded, which covers the inputs used.
Replacement == 65533

RECURSIVE Utf8ToString(_)
Utf8ToString(b) ==
    IF Len(b) = 0 THEN <<>>
    ELSE IF b[1] < 128 THEN <<b[1]>> \o Utf8ToString(Tail(b))
    ELSE IF b[1] >= 194 /\ b[1] < 224 /\ Len(b) >= 2 /\ b[2] >= 128 /\ b[2] < 192
         THEN <<(b[1] - 192) * 64 + (b[2] - 128)>> \o Utf8ToString(SubSeq(b, 3, Len(b)))
    ELSE <<Replacement>> \o Utf8ToString(Tail(b))

\* "N/A"
NotAvailable == <<78, 47, 65>>

\* ------------------------------------------------------------------ inputs
\* Byte buffers the peripheral can send: a 4-byte head (1.0 or 2.0 as
\* float32-LE) cut or zero-padded to one of the lengths.
ONE_LE == <<0, 0, 128, 63>>
TWO_LE == <<0, 0, 0, 64>>
BufLens == {3, 4, 6, 16, ImuFloats * FloatBytes}
Buf(n, head) == [i \in 1..n |-> IF i <= Len(head) THEN head[i] ELSE 0]
Buffers == {Buf(n, h) : n \in BufLens, h \in {ONE_LE, TWO_LE}}

\* The arguments of a monitor callback / the result of a read: the
\* characteristic is null, or has a null value, or a base64 text (maybe "").
NullChar == [kind |-> "null", value |-> <<>>]
NoValueChar == [kind |-> "novalue", value |-> <<>>]
ValueChar(text) == [kind |-> "value", value |-> text]
Characteristics ==
    {NullChar, NoValueChar, ValueChar(<<>>)} \cup {ValueChar(Base64Encode(b)) : b \in Buffers}

\* The frames of a well-behaved peripheral: 36, 4 and 1 floats.
Frame(chan) ==
    Buf((CASE chan = "IMU" -> ImuFloats [] chan = "LASER" -> LaserFloats [] OTHER -> 1)
        * FloatBytes, ONE_LE)
GoodCharacteristics(chan) == {NullChar, ValueChar(Base64Encode(Frame(chan)))}

\* HasValue with a fault: only the characteristic is tested, not its value.
HasCharacteristic(c) == c.kind # "null"

\* characteristic?.value is truthy
HasValue(c) == c.kind = "value" /\ c.value # <<>>

\* "N1" and a text with a byte that is no UTF-8
IdBuffers == {<<78, 49>>, <<78, 255>>}
IdCharacteristics ==
    {NullChar, NoValueChar} \cup {ValueChar(Base64Encode(b)) : b \in IdBuffers}

\* What a scan callback can report.
NullScanDevice == [id |-> "", name |-> NoName]
ScanDevices == [id : DeviceIds, name : Names] \cup {NullScanDevice}

\* ------------------------------------------------------------------- state
VARIABLES
    mounted,          \* the component is mounted
    allDevices,       \* useState<Device[]>: sequence of [id, name]
    connectedDevice,  \* useState<Device | null>: NoDevice or an attempt index
    isScanning,       \* useState<boolean>
    imuData,          \* useState<number[]>
    laserData,        \* useState<number[]>
    weightData,       \* useState<number>
    deviceID,         \* useState<string>
    permPending,      \* scanForDevices calls waiting in await requestPermissions()
    scanTimers,       \* setTimeout(.., 10000) callbacks not yet fired
    nativeScan,       \* the BleManager is scanning and calls the scan callback
    attempts,         \* connectToDevice calls: [id, pc, monitoring, inflight, cancels]
    link,             \* per device id: the transport connection is open
    uncaught,         \* a callback has thrown (RangeError from readFloatLE)
    notifyError       \* a monitor callback has logged "... Notify Error:"

uiVars == <<mounted, allDevices, connectedDevice, isScanning>>
storeVars == <<imuData, laserData, weightData, deviceID>>
scanVars == <<permPending, scanTimers, nativeScan>>
bleVars == <<attempts, link, uncaught, notifyError>>
vars == <<uiVars, storeVars, scanVars, bleVars>>

Attempts == 1..Len(attempts)
DevId(a) == attempts[a].id
NoInflight == [c \in Chans |-> 0]

RECURSIVE InflightFrom(_)
InflightFrom(a) ==
    IF a > Len(attempts) THEN 0
    ELSE attempts[a].inflight["IMU"] + attempts[a].inflight["LASER"]
         + attempts[a].inflight["WEIGHT"] + InflightFrom(a + 1)

\* Notifications sent by a peripheral whose callback has not run yet.
InflightTotal == InflightFrom(1)

TypeOK ==
    /\ mounted \in BOOLEAN
    /\ isScanning \in BOOLEAN
    /\ nativeScan \in BOOLEAN
    /\ connectedDevice \in {NoDevice} \cup Attempts
    /\ \A i \in 1..Len(allDevices) : allDevices[i] \in ScanDevices
    /\ Len(attempts) <= MaxRacing
    /\ \A a \in Attempts :
          /\ attempts[a].id \in DeviceIds
          /\ attempts[a].pc \in {"connect", "connectFailed", "discover",
                                 "discoverFailed", "read", "readFailed", "done"}
          /\ attempts[a].monitoring \in BOOLEAN
    /\ link \in [DeviceIds -> BOOLEAN]
    /\ permPending + scanTimers <= MaxScans
    /\ uncaught \in BOOLEAN
    /\ notifyError \in BOOLEAN

Init ==
    /\ mounted = TRUE
    /\ allDevices = <<>>
    /\ connectedDevice = NoDevice
    /\ isScanning = FALSE
    /\ imuData = <<>>
    /\ laserData = <<>>
    /\ weightData = Zero
    /\ deviceID = NotAvailable
    /\ permPending = 0
    /\ scanTimers = 0
    /\ nativeScan = FALSE
    /\ attempts = <<>>
    /\ link = [d \in DeviceIds |-> FALSE]
    /\ uncaught = FALSE
    /\ notifyError = FALSE

\* A state setter of a component that is no longer mounted has no effect.
Set(old, new) == IF mounted THEN new ELSE old

\* ------------------------------------------------------------------- scan
\* scanForDevices up to its await; the Scan button is rendered only while
\* nothing is connected and is disabled while isScanning.
ScanPress ==
    /\ mounted /\ connectedDevice = NoDevice /\ ~isScanning
    /\ permPending + scanTimers < MaxScans
    /\ isScanning' = TRUE
    /\ nativeScan' = FALSE
    /\ permPending' = permPending + 1
    /\ UNCHANGED <<mounted, allDevices, connectedDevice, storeVars, scanTimers, bleVars>>

\* PermissionResolved with a fault: the answer of requestPermissions is ignored.
PermissionIgnored(hasPermission) ==
    /\ permPending > 0
    /\ permPending' = permPending - 1
    /\ allDevices' = Set(allDevices, <<>>)
    /\ nativeScan' = TRUE
    /\ scanTimers' = scanTimers + 1
    /\ UNCHANGED <<mounted, isScanning, connectedDevice, storeVars, bleVars>>

\* scanForDevices after requestPermissions() resolved.
PermissionResolved(hasPermission) ==
    /\ permPending > 0
    /\ permPending' = permPending - 1
    /\ IF ~hasPermission
       THEN /\ isScanning' = Set(isScanning, FALSE)
            /\ UNCHANGED <<allDevices, nativeScan, scanTimers>>
       ELSE /\ allDevices' = Set(allDevices, <<>>)
            /\ nativeScan' = TRUE
            /\ scanTimers' = scanTimers + 1
            /\ UNCHANGED isScanning
    /\ UNCHANGED <<mounted, connectedDevice, storeVars, bleVars>>

\* AddDevice with a fault: no duplicate check.
AddDeviceAlways(prev, device) == Append(prev, device)

\* The updater passed to setAllDevices.
AddDevice(prev, device) ==
    LET alreadyInList == \E i \in 1..Len(prev) : prev[i].id = device.id
    IN  IF ~alreadyInList THEN Append(prev, device) ELSE prev

\* ScanCallback with a fault: the error is not looked at.
ScanCallbackIgnoringError(error, device) ==
    /\ nativeScan
    /\ allDevices' = IF device.name = DEVICE_LOCAL_NAME
                     THEN Set(allDevices, AddDevice(allDevices, device))
                     ELSE allDevices
    /\ UNCHANGED <<mounted, connectedDevice, isScanning, storeVars, scanVars, bleVars>>

\* The callback given to startDeviceScan.
ScanCallback(error, device) ==
    /\ nativeScan
    /\ IF error
       THEN /\ isScanning' = Set(isScanning, FALSE)
            /\ nativeScan' = FALSE
            /\ UNCHANGED allDevices
       ELSE /\ allDevices' = IF device.name = DEVICE_LOCAL_NAME
                             THEN Set(allDevices, AddDevice(allDevices, device))
                             ELSE allDevices
            /\ UNCHANGED <<isScanning, nativeScan>>
    /\ UNCHANGED <<mounted, connectedDevice, storeVars, permPending, scanTimers, bleVars>>

\* ScanTimeout with a fault: the timer stops the scan and leaves isScanning set.
ScanTimeoutKeepsFlag ==
    /\ scanTimers > 0
    /\ scanTimers' = scanTimers - 1
    /\ nativeScan' = FALSE
    /\ UNCHANGED <<mounted, allDevices, connectedDevice, isScanning, storeVars,
                   permPending, bleVars>>

\* The setTimeout callback of scanForDevices.
ScanTimeout ==
    /\ scanTimers > 0
    /\ scanTimers' = scanTimers - 1
    /\ nativeScan' = FALSE
    /\ isScanning' = Set(isScanning, FALSE)
    /\ UNCHANGED <<mounted, allDevices, connectedDevice, storeVars, permPending, bleVars>>

\* ------------------------------------------------- disconnect and cleanup
\* The part of the state that disconnectDevice touches, as one record.
Session ==
    [connectedDevice |-> connectedDevice, imuData |-> imuData, laserData |-> laserData,
     weightData |-> weightData, deviceID |-> deviceID, link |-> link,
     attempts |-> attempts]

\* disconnectDevice as created by the render in which connectedDevice was
\* `captured` (its useCallback dependency), applied to session s.
disconnectDevice(s, captured) ==
    IF captured # NoDevice
    THEN [s EXCEPT !.link[DevId(captured)] = FALSE,
                   !.attempts[captured].cancels = @ + 1,
                   !.connectedDevice = NoDevice,
                   !.imuData = <<>>,
                   !.laserData = <<>>,
                   !.weightData = Zero,
                   !.deviceID = NotAvailable]
    ELSE s

\* useEffect(() => () => disconnectDevice(), [disconnectDevice]): when a render
\* sees a connectedDevice other than the one `rendered` before, disconnectDevice
\* is a new function, and the cleanup of the previous effect runs the previous
\* disconnectDevice.  Its setters may cause one more render.
RECURSIVE Rerender(_, _)
Rerender(s, rendered) ==
    IF s.connectedDevice = rendered THEN s
    ELSE Rerender(disconnectDevice(s, rendered), s.connectedDevice)

\* Writes a session record back to the variables.
Commit(s) ==
    /\ connectedDevice' = s.connectedDevice
    /\ imuData' = s.imuData
    /\ laserData' = s.laserData
    /\ weightData' = s.weightData
    /\ deviceID' = s.deviceID
    /\ link' = s.link
    /\ attempts' = s.attempts

\* The Disconnect button (rendered only while connectedDevice is set).
DisconnectPress ==
    /\ mounted /\ connectedDevice # NoDevice
    /\ Commit(Rerender(disconnectDevice(Session, connectedDevice), connectedDevice))
    /\ UNCHANGED <<mounted, allDevices, isScanning, scanVars, uncaught, notifyError>>

\* Unmount: the effect cleanup runs the current disconnectDevice.
Unmount ==
    /\ mounted
    /\ mounted' = FALSE
    /\ Commit(disconnectDevice(Session, connectedDevice))
    /\ UNCHANGED <<allDevices, isScanning, scanVars, uncaught, notifyError>>

\* ----------------------------------------------------------------- connect
\* A tap on item i of the device list (rendered while nothing is connected):
\* connectToDevice up to its first await.
ConnectPress(i, limit) ==
    /\ mounted /\ connectedDevice = NoDevice
    /\ i \in 1..Len(allDevices)
    /\ Len(attempts) < limit
    /\ attempts' = Append(attempts, [id |-> allDevices[i].id, pc |-> "connect",
                                     monitoring |-> FALSE, inflight |-> NoInflight,
                                     cancels |-> 0])
    /\ UNCHANGED <<uiVars, storeVars, scanVars, link, uncaught, notifyError>>

\* await bleManager.connectToDevice(device.id) resolved: setConnectedDevice,
\* then discoverAllServicesAndCharacteristics is called.
ConnectResolved(a) ==
    /\ a \in Attempts /\ attempts[a].pc = "connect"
    /\ LET opened == [Session EXCEPT !.link[DevId(a)] = TRUE,
                                    !.attempts[a].pc = "discover"]
       IN  IF mounted
           THEN Commit(Rerender([opened EXCEPT !.connectedDevice = a], connectedDevice))
           ELSE Commit(opened)
    /\ UNCHANGED <<mounted, allDevices, isScanning, scanVars, uncaught, notifyError>>

\* ... rejected: the catch block.
ConnectRejected(a) ==
    /\ a \in Attempts /\ attempts[a].pc = "connect"
    /\ attempts' = [attempts EXCEPT ![a].pc = "connectFailed"]
    /\ UNCHANGED <<uiVars, storeVars, scanVars, link, uncaught, notifyError>>

\* DiscoverResolved with a fault: readDeviceID is called and startNotifications
\* is not.
DiscoverResolvedReadOnly(a) ==
    /\ a \in Attempts /\ attempts[a].pc = "discover"
    /\ nativeScan' = FALSE
    /\ attempts' = [attempts EXCEPT ![a].pc = "read"]
    /\ UNCHANGED <<uiVars, storeVars, permPending, scanTimers,
                   link, uncaught, notifyError>>

\* await connected.discoverAllServicesAndCharacteristics() resolved:
\* stopDeviceScan, startNotifications (three monitors), readDeviceID is called.
DiscoverResolved(a) ==
    /\ a \in Attempts /\ attempts[a].pc = "discover"
    /\ nativeScan' = FALSE
    /\ attempts' = [attempts EXCEPT ![a].pc = "read", ![a].monitoring = TRUE]
    /\ UNCHANGED <<uiVars, storeVars, permPending, scanTimers,
                   link, uncaught, notifyError>>

\* ... rejected: the catch block.
DiscoverRejected(a) ==
    /\ a \in Attempts /\ attempts[a].pc = "discover"
    /\ attempts' = [attempts EXCEPT ![a].pc = "discoverFailed"]
    /\ UNCHANGED <<uiVars, storeVars, scanVars, link, uncaught, notifyError>>

\* ReadResolved with a fault: setDeviceID is called whether or not the
\* characteristic has a value.
ReadResolvedUnchecked(a, characteristic) ==
    /\ a \in Attempts /\ attempts[a].pc = "read"
    /\ attempts' = [attempts EXCEPT ![a].pc = "done"]
    /\ deviceID' = Set(deviceID, Utf8ToString(BufferFromBase64(characteristic.value)))
    /\ UNCHANGED <<uiVars, imuData, laserData, weightData, scanVars,
                   link, uncaught, notifyError>>

\* readDeviceID after await device.readCharacteristicForService(..) resolved.
ReadResolved(a, characteristic) ==
    /\ a \in Attempts /\ attempts[a].pc = "read"
    /\ attempts' = [attempts EXCEPT ![a].pc = "done"]
    /\ deviceID' = IF HasValue(characteristic)
                   THEN Set(deviceID, Utf8ToString(BufferFromBase64(characteristic.value)))
                   ELSE deviceID
    /\ UNCHANGED <<uiVars, imuData, laserData, weightData, scanVars,
                   link, uncaught, notifyError>>

\* ... rejected: the catch block of readDeviceID.
ReadRejected(a) ==
    /\ a \in Attempts /\ attempts[a].pc = "read"
    /\ attempts' = [attempts EXCEPT ![a].pc = "readFailed"]
    /\ UNCHANGED <<uiVars, storeVars, scanVars, link, uncaught, notifyError>>

\* The peripheral drops the link.
LinkLost(d) ==
    /\ link[d]
    /\ link' = [link EXCEPT ![d] = FALSE]
    /\ UNCHANGED <<uiVars, storeVars, scanVars, attempts, uncaught, notifyError>>

\* ----------------------------------------------------------- notifications
\* The peripheral sends a notification on a monitored characteristic of an
\* open link; the callback runs when it has crossed the bridge.
Notify(a, chan) ==
    /\ a \in Attempts /\ attempts[a].monitoring /\ link[DevId(a)]
    /\ InflightTotal < MaxNotifs
    /\ attempts' = [attempts EXCEPT ![a].inflight[chan] = @ + 1]
    /\ UNCHANGED <<uiVars, storeVars, scanVars, link, uncaught, notifyError>>

\* A monitor callback is called with an error (at any time after it was
\* registered), or with a pending notification.
Delivered(a, chan, error) ==
    /\ a \in Attempts /\ attempts[a].monitoring
    /\ IF error
       THEN notifyError' = TRUE /\ UNCHANGED attempts
       ELSE /\ attempts[a].inflight[chan] > 0
            /\ attempts' = [attempts EXCEPT ![a].inflight[chan] = @ - 1]
            /\ UNCHANGED notifyError

\* ImuCallback with a fault: the new frame is appended to the previous one.
ImuCallbackMerging(a, error, characteristic) ==
    /\ Delivered(a, "IMU", error)
    /\ IF error \/ ~HasValue(characteristic)
       THEN UNCHANGED <<imuData, uncaught>>
       ELSE LET parsed == ParseFloats(BufferFromBase64(characteristic.value))
            IN  IF parsed.threw
                THEN uncaught' = TRUE /\ UNCHANGED imuData
                ELSE imuData' = Set(imuData, imuData \o parsed.floats) /\ UNCHANGED uncaught
    /\ UNCHANGED <<uiVars, laserData, weightData, deviceID, scanVars, link>>

\* The IMU monitor callback.
ImuCallback(a, error, characteristic) ==
    /\ Delivered(a, "IMU", error)
    /\ IF error \/ ~HasValue(characteristic)
       THEN UNCHANGED <<imuData, uncaught>>
       ELSE LET parsed == ParseFloats(BufferFromBase64(characteristic.value))
            IN  IF parsed.threw
                THEN uncaught' = TRUE /\ UNCHANGED imuData
                ELSE imuData' = Set(imuData, parsed.floats) /\ UNCHANGED uncaught
    /\ UNCHANGED <<uiVars, laserData, weightData, deviceID, scanVars, link>>

\* The Laser monitor callback.
LaserCallback(a, error, characteristic) ==
    /\ Delivered(a, "LASER", error)
    /\ IF error \/ ~HasValue(characteristic)
       THEN UNCHANGED <<laserData, uncaught>>
       ELSE LET parsed == ParseFloats(BufferFromBase64(characteristic.value))
            IN  IF parsed.threw
                THEN uncaught' = TRUE /\ UNCHANGED laserData
                ELSE laserData' = Set(laserData, parsed.floats) /\ UNCHANGED uncaught
    /\ UNCHANGED <<uiVars, imuData, weightData, deviceID, scanVars, link>>

\* DecodeWeight with a fault: the float is read from the end of the buffer.
DecodeWeightFromEnd(buffer, weight) ==
    IF Len(buffer) >= FloatBytes
    THEN ReadFloatLE(buffer, Len(buffer) - FloatBytes)
    ELSE weight

\* if (buffer.length >= 4) setWeightData(buffer.readFloatLE(0)): the new value
\* of weightData.
DecodeWeight(buffer, weight) ==
    IF Len(buffer) >= FloatBytes THEN ReadFloatLE(buffer, 0) ELSE weight

\* The Weight monitor callback.
WeightCallback(a, error, characteristic) ==
    /\ Delivered(a, "WEIGHT", error)
    /\ IF error \/ ~HasValue(characteristic)
       THEN UNCHANGED weightData
       ELSE weightData' = Set(weightData, DecodeWeight(BufferFromBase64(characteristic.value),
                                                       weightData))
    /\ UNCHANGED <<uiVars, imuData, laserData, deviceID, scanVars, link, uncaught>>

\* ---------------------------------------------------------- specifications
\* The scanner: every action that reads or writes the scan state.
ScanNext ==
    \/ ScanPress
    \/ \E hasPermission \in BOOLEAN : PermissionResolved(hasPermission)
    \/ \E error \in BOOLEAN, device \in ScanDevices : ScanCallback(error, device)
    \/ ScanTimeout

\* The session: connect, discover, identity read, disconnect, unmount.
SessionNext ==
    \/ \E a \in Attempts : ConnectResolved(a)
    \/ \E a \in Attempts : ConnectRejected(a)
    \/ \E a \in Attempts : DiscoverResolved(a)
    \/ \E a \in Attempts : DiscoverRejected(a)
    \/ \E a \in Attempts, c \in IdCharacteristics : ReadResolved(a, c)
    \/ \E a \in Attempts : ReadRejected(a)
    \/ \E d \in DeviceIds : LinkLost(d)
    \/ DisconnectPress
    \/ Unmount

\* Notifications of a well-behaved peripheral.
NotifyNext ==
    \/ \E a \in Attempts, chan \in Chans : Notify(a, chan)
    \/ \E a \in Attempts, error \in BOOLEAN, c \in GoodCharacteristics("IMU") :
          ImuCallback(a, error, c)
    \/ \E a \in Attempts, error \in BOOLEAN, c \in GoodCharacteristics("LASER") :
          LaserCallback(a, error, c)
    \/ \E a \in Attempts, error \in BOOLEAN, c \in GoodCharacteristics("WEIGHT") :
          WeightCallback(a, error, c)

\* The whole screen from mount, one connect attempt.
Next ==
    \/ ScanNext
    \/ \E i \in 1..Len(allDevices) : ConnectPress(i, MaxAttempts)
    \/ SessionNext
    \/ NotifyNext

Spec == Init /\ [][Next]_vars

\* The scanner together with everything that enables or disables its
\* actions (the notification callbacks touch only the sensor slots).
ScanSpecNext ==
    \/ ScanNext
    \/ \E i \in 1..Len(allDevices) : ConnectPress(i, MaxAttempts)
    \/ SessionNext

ScanSpec == Init /\ [][ScanSpecNext]_vars

\* The scanner with its timers: a timer armed by setTimeout fires.
FairScanSpec == Init /\ [][ScanSpecNext]_vars /\ WF_vars(ScanTimeout)

\* A Ready session: after a scan that listed device AA and timed out, the
\* device was tapped, connect and discovery resolved and the identity read
\* returned no value.
ReadyInit ==
    /\ mounted = TRUE
    /\ allDevices = <<[id |-> "AA", name |-> DEVICE_LOCAL_NAME]>>
    /\ connectedDevice = 1
    /\ isScanning = FALSE
    /\ imuData = <<>>
    /\ laserData = <<>>
    /\ weightData = Zero
    /\ deviceID = NotAvailable
    /\ permPending = 0
    /\ scanTimers = 0
    /\ nativeScan = FALSE
    /\ attempts = <<[id |-> "AA", pc |-> "done", monitoring |-> TRUE,
                     inflight |-> NoInflight, cancels |-> 0]>>
    /\ link = [d \in DeviceIds |-> d = "AA"]
    /\ uncaught = FALSE
    /\ notifyError = FALSE

\* The notification callbacks on every payload a peripheral can send.
DecodeNext ==
    \/ \E a \in Attempts, chan \in Chans : Notify(a, chan)
    \/ \E a \in Attempts, error \in BOOLEAN, c \in Characteristics : ImuCallback(a, error, c)
    \/ \E a \in Attempts, error \in BOOLEAN, c \in Characteristics : LaserCallback(a, error, c)
    \/ \E a \in Attempts, error \in BOOLEAN, c \in Characteristics : WeightCallback(a, error, c)

DecodeSpec == ReadyInit /\ [][DecodeNext]_vars

\* ReadyInit is a state of the whole screen: NotReadyInit is no invariant of Spec.
IsReadyInit == ReadyInit
NotReadyInit == ~IsReadyInit

\* Two devices listed: after a scan that listed AA and BB and timed out.
ListedInit ==
    /\ mounted = TRUE
    /\ allDevices = <<[id |-> "AA", name |-> DEVICE_LOCAL_NAME],
                      [id |-> "BB", name |-> DEVICE_LOCAL_NAME]>>
    /\ connectedDevice = NoDevice
    /\ isScanning = FALSE
    /\ imuData = <<>>
    /\ laserData = <<>>
    /\ weightData = Zero
    /\ deviceID = NotAvailable
    /\ permPending = 0
    /\ scanTimers = 0
    /\ nativeScan = FALSE
    /\ attempts = <<>>
    /\ link = [d \in DeviceIds |-> FALSE]
    /\ uncaught = FALSE
    /\ notifyError = FALSE

\* Taps on the device list, up to MaxRacing of them, and the sessions they
\* start; the list stays on screen until a transport connect has resolved.
RaceNext ==
    \/ \E i \in 1..Len(allDevices) : ConnectPress(i, MaxRacing)
    \/ SessionNext

RaceSpec == ListedInit /\ [][RaceNext]_vars

\* A session whose identity read is pending: after a scan that listed device
\* AA and timed out, the device was tapped and connect and discovery resolved.
ReadingInit ==
    /\ mounted = TRUE
    /\ allDevices = <<[id |-> "AA", name |-> DEVICE_LOCAL_NAME]>>
    /\ connectedDevice = 1
    /\ isScanning = FALSE
    /\ imuData = <<>>
    /\ laserData = <<>>
    /\ weightData = Zero
    /\ deviceID = NotAvailable
    /\ permPending = 0
    /\ scanTimers = 0
    /\ nativeScan = FALSE
    /\ attempts = <<[id |-> "AA", pc |-> "read", monitoring |-> TRUE,
                     inflight |-> NoInflight, cancels |-> 0]>>
    /\ link = [d \in DeviceIds |-> d = "AA"]
    /\ uncaught = FALSE
    /\ notifyError = FALSE

\* The identity read and what runs beside it: notifications, link loss,
\* disconnect and unmount.
IdentityNext ==
    \/ \E a \in Attempts, c \in IdCharacteristics : ReadResolved(a, c)
    \/ \E a \in Attempts : ReadRejected(a)
    \/ \E d \in DeviceIds : LinkLost(d)
    \/ DisconnectPress
    \/ Unmount
    \/ NotifyNext

IdentitySpec == ReadingInit /\ [][IdentityNext]_vars

\* ReadingInit is a state of the whole screen: NotReadingInit is no invariant
\* of Spec.
IsReadingInit == ReadingInit
NotReadingInit == ~IsReadingInit

\* The Weight line of the screen: weightData !== 0 selects the value over
\* the text "No Weight data yet." (0 and -0 are both equal to 0).
WeightShown(w) == ~(w.exp = 0 /\ w.man = 0)

\* Weight frames of a peripheral whose estimate can be 0.0: 0.0 and 1.0.
ZERO_LE == <<0, 0, 0, 0>>
WeightCharacteristics ==
    {NullChar} \cup {ValueChar(Base64Encode(b)) : b \in {ZERO_LE, ONE_LE}}

\* A Ready session as the screen shows it: notifications, among them Weight
\* frames of 0.0, beside link loss, disconnect and unmount.
DisplayNext ==
    \/ \E a \in Attempts, chan \in Chans : Notify(a, chan)
    \/ \E a \in Attempts, error \in BOOLEAN, c \in GoodCharacteristics("IMU") :
          ImuCallback(a, error, c)
    \/ \E a \in Attempts, error \in BOOLEAN, c \in GoodCharacteristics("LASER") :
          LaserCallback(a, error, c)
    \/ \E a \in Attempts, error \in BOOLEAN, c \in WeightCharacteristics :
          WeightCallback(a, error, c)
    \/ \E d \in DeviceIds : LinkLost(d)
    \/ DisconnectPress
    \/ Unmount

DisplaySpec == ReadyInit /\ [][DisplayNext]_vars

\* ListedInit is a state of the scanner: NotListedInit is no invariant of ScanSpec.
IsListedInit == ListedInit
NotListedInit == ~IsListedInit

\* ------------------------------------------------------------------ claims
StoreEmpty ==
    /\ imuData = <<>>
    /\ laserData = <<>>
    /\ weightData = Zero
    /\ deviceID = NotAvailable

One == Float32(0, 0, 128, 63)

\* disconnectDevice (the button, an effect cleanup or the unmount cleanup) has
\* run while a step of attempt a is still in flight: the component is
\* unmounted, or the attempt has set connectedDevice and it is no longer set.
DisconnectedInFlight(a) ==
    /\ attempts[a].pc \in {"connect", "discover", "read"}
    /\ \/ ~mounted
       \/ attempts[a].pc \in {"discover", "read"} /\ connectedDevice # a

\* C1: when a step of connectToDevice completes after disconnectDevice has
\* run, the completion does not set connectedDevice, registers no notification
\* subscription and writes no store slot.
C1_StaleCompletionDiscarded ==
    [][\A a \in Attempts :
          (DisconnectedInFlight(a) /\ attempts'[a].pc # attempts[a].pc)
          => /\ connectedDevice' = connectedDevice
             /\ attempts'[a].monitoring = attempts[a].monitoring
             /\ storeVars' = storeVars]_vars

\* C2: disconnectDevice, run once or twice or with nothing connected, leaves
\* connectedDevice null and the store empty, and no connection has had more
\* than one cancelDeviceConnection issued for it.
C2_DisconnectIdempotent ==
    [][(DisconnectPress \/ Unmount)
          => /\ connectedDevice' = NoDevice
             /\ (connectedDevice # NoDevice => StoreEmpty')
             /\ \A a \in Attempts : attempts'[a].cancels <= 1]_vars

\* C3: allDevices never holds two entries with the same id, and every entry
\* carries the advertised name DEVICE_LOCAL_NAME.
C3_ListDistinctAndNamed ==
    /\ \A i, j \in 1..Len(allDevices) : i # j => allDevices[i].id # allDevices[j].id
    /\ \A i \in 1..Len(allDevices) : allDevices[i].name = DEVICE_LOCAL_NAME

\* C3 witness: a scan session has listed both devices.
C3_Witness == Len(allDevices) = 2 /\ nativeScan

\* C4: the IMU slot is empty or holds exactly 36 floats, and no IMU callback
\* has raised an error.
C4_ImuEmptyOr36 == Len(imuData) \in {0, ImuFloats} /\ ~uncaught

\* C5: the Range slot is empty or holds exactly 4 floats.
C5_LaserEmptyOr4 == Len(laserData) \in {0, LaserFloats}

\* C6: a Weight callback with the base64 text of a buffer b leaves weightData
\* unchanged when b has fewer than 4 bytes and otherwise stores the float32 of
\* bytes 0..3 of b, whatever follows them.
C6_WeightFirstFourBytes ==
    [][\A a \in Attempts, b \in Buffers :
          WeightCallback(a, FALSE, ValueChar(Base64Encode(b)))
          => weightData' = IF Len(b) < 4 THEN weightData
                           ELSE Float32(b[1], b[2], b[3], b[4])]_vars

\* C6 witness: a Weight notification was applied (the slot holds 1.0) and a
\* further one is pending.
C6_Witness ==
    weightData = One /\ \E a \in Attempts : attempts[a].inflight["WEIGHT"] > 0

\* C7: a callback on any channel that carries an error, a null characteristic
\* or a null value changes no store slot and not connectedDevice, raises
\* nothing and leaves the subscription registered.
C7_DroppedNotification ==
    [][\A a \in Attempts, error \in BOOLEAN, c \in Characteristics :
          (/\ error \/ c \in {NullChar, NoValueChar}
           /\ \/ ImuCallback(a, error, c)
              \/ LaserCallback(a, error, c)
              \/ WeightCallback(a, error, c))
          => /\ storeVars' = storeVars
             /\ connectedDevice' = connectedDevice
             /\ uncaught' = uncaught
             /\ attempts'[a].monitoring]_vars

\* C7 witness: a callback has reported an error, the session is still
\* connected, and all three slots hold frames of later notifications.
C7_Witness ==
    /\ notifyError
    /\ connectedDevice # NoDevice
    /\ Len(imuData) = ImuFloats /\ Len(laserData) = LaserFloats /\ weightData = One

\* C8: while nothing is connected the sensor slots are empty: no notification
\* callback writes the store after disconnectDevice has run.
C8_NoWriteAfterDisconnect ==
    connectedDevice = NoDevice
    => imuData = <<>> /\ laserData = <<>> /\ weightData = Zero

\* C9: once the unmount cleanup has asked for the disconnect, no connection of
\* an attempt that is past its transport connect is open.
C9_ReleasedAfterRequest ==
    \A a \in Attempts :
        (~mounted /\ attempts[a].pc # "connect") => ~link[DevId(a)]

\* C10: an attempt whose discovery failed has left connectedDevice null and
\* has registered no subscription.
C10_DiscoveryFailureAborts ==
    \A a \in Attempts :
        attempts[a].pc = "discoverFailed"
        => connectedDevice = NoDevice /\ ~attempts[a].monitoring

\* C11: when the transport connect of an attempt fails, the session is Idle
\* afterwards (connectedDevice null, store unchanged and empty), the attempt
\* is over without discovery, subscription or identity read, and no new
\* transport connect is issued by the failure.
C11_ConnectFailureEndsIdle ==
    [][\A a \in Attempts :
          ConnectRejected(a)
          => /\ connectedDevice' = NoDevice
             /\ storeVars' = storeVars /\ StoreEmpty'
             /\ attempts'[a].pc = "connectFailed" /\ ~attempts'[a].monitoring
             /\ Len(attempts') = Len(attempts)]_vars

\* C12: the underlying scan starts only in the step in which
\* requestPermissions resolves to true; when it resolves to false the scan is
\* not started, no timer is armed and no new request is made, and isScanning
\* is false afterwards.
C12_ScanOnlyAfterPermission ==
    [][/\ (~nativeScan /\ nativeScan') => PermissionResolved(TRUE)
       /\ PermissionResolved(FALSE)
          => /\ nativeScan' = nativeScan
             /\ scanTimers' = scanTimers
             /\ permPending' = permPending - 1
             /\ allDevices' = allDevices
             /\ (mounted => ~isScanning')]_vars

\* C12 witness: a second scan was requested while the list of a first one is
\* on screen; its permission request is pending, isScanning is set and the
\* underlying scan is not running.
C12_Witness ==
    /\ mounted /\ isScanning /\ permPending > 0 /\ ~nativeScan
    /\ Len(allDevices) > 0

\* C13: a timer that fires stops the underlying scan and clears isScanning,
\* and, the timers firing, every underlying scan that was started is stopped
\* and isScanning does not stay set while a scan runs.
C13_ScanSelfTerminates ==
    /\ [][ScanTimeout => ~nativeScan' /\ (mounted => ~isScanning')]_vars
    /\ nativeScan ~> ~nativeScan
    /\ (mounted /\ isScanning /\ scanTimers > 0) ~> (~mounted \/ ~isScanning)

\* C13 witness: a scan session has listed a device and every timer has fired:
\* nothing is scanning any more.
C13_Witness ==
    /\ mounted /\ Len(allDevices) > 0 /\ connectedDevice = NoDevice
    /\ scanTimers = 0 /\ permPending = 0 /\ ~nativeScan /\ ~isScanning

\* The attempts with a transport connect, a service discovery or an identity
\* read in flight.
InFlight == {a \in Attempts : attempts[a].pc \in {"connect", "discover", "read"}}

\* C14: at most one transport connect, service discovery or identity read is
\* in flight at any time.
C14_OneOperationInFlight == Cardinality(InFlight) <= 1

\* C15: when the peripheral has dropped the link of the connected device and
\* a monitor callback reports the error, the session is Idle afterwards:
\* connectedDevice is null and the store is cleared.
C15_LinkLossEndsSession ==
    [][\A a \in Attempts :
          (/\ connectedDevice = a /\ ~link[DevId(a)]
           /\ \/ ImuCallback(a, TRUE, NullChar)
              \/ LaserCallback(a, TRUE, NullChar)
              \/ WeightCallback(a, TRUE, NullChar))
          => connectedDevice' = NoDevice /\ StoreEmpty']_vars

\* C16: a timer that stops a running scan or clears isScanning is the timer
\* of the latest session: no timer of an earlier session is pending with it
\* and no later session is waiting for its permission.
C16_TimerOfOwnSession ==
    [][(ScanTimeout /\ (nativeScan \/ (mounted /\ isScanning)))
          => scanTimers = 1 /\ permPending = 0]_vars

\* C17: the identity read of an attempt is issued by the step in which its
\* discovery succeeds and in no other step, it completes once (resolved or
\* rejected) and is not repeated, and the three subscriptions are registered
\* exactly when the read has been issued.
C17_IdentityReadOnceAfterSubscribe ==
    /\ [](\A a \in Attempts :
             attempts[a].monitoring <=> attempts[a].pc \in {"read", "done", "readFailed"})
    /\ [][\A a \in Attempts :
             /\ (attempts[a].pc # "read" /\ attempts'[a].pc = "read") => DiscoverResolved(a)
             /\ (attempts[a].pc = "read" /\ attempts'[a].pc # "read")
                => attempts'[a].pc \in {"done", "readFailed"}
             /\ attempts[a].pc \in {"done", "readFailed"}
                => attempts'[a].pc = attempts[a].pc]_vars

\* C17 witness: the identity read of a connected attempt has returned "N1"
\* and its subscriptions are registered.
C17_Witness ==
    \E a \in Attempts :
        /\ attempts[a].pc = "done" /\ attempts[a].monitoring
        /\ connectedDevice = a /\ deviceID = <<78, 49>>

\* The characteristics without a value: null, a null value, the empty text.
NoValueChars == {NullChar, NoValueChar, ValueChar(<<>>)}

\* The frames of Frame(chan) as floats.
ImuFrame == [i \in 1..ImuFloats |-> IF i = 1 THEN One ELSE Zero]
LaserFrame == [i \in 1..LaserFloats |-> IF i = 1 THEN One ELSE Zero]

\* C18: an identity read that is rejected or resolves without a value leaves
\* the identity slot as it was (so "N/A" stays "N/A"), changes neither
\* connectedDevice nor a sensor slot and leaves the subscriptions registered;
\* and after the read has completed, in whatever way, the callbacks of the
\* mounted component still store the frames they receive.
C18_IdentityFailureKeepsSession ==
    /\ [][\A a \in Attempts :
             (ReadRejected(a) \/ \E c \in NoValueChars : ReadResolved(a, c))
             => /\ storeVars' = storeVars
                /\ connectedDevice' = connectedDevice
                /\ attempts'[a].monitoring]_vars
    /\ [][\A a \in Attempts :
             (mounted /\ attempts[a].pc \in {"readFailed", "done"})
             => /\ ImuCallback(a, FALSE, ValueChar(Base64Encode(Frame("IMU"))))
                   => imuData' = ImuFrame
                /\ LaserCallback(a, FALSE, ValueChar(Base64Encode(Frame("LASER"))))
                   => laserData' = LaserFrame
                /\ WeightCallback(a, FALSE, ValueChar(Base64Encode(Frame("WEIGHT"))))
                   => weightData' = One]_vars
    /\ [](\A a \in Attempts : attempts[a].pc \in {"readFailed", "done"}
                              => attempts[a].monitoring)

\* C18 witness: the identity read was rejected, the slot shows "N/A", the
\* session is connected and all three sensor slots hold frames while a
\* further notification is pending.
C18_Witness ==
    \E a \in Attempts :
        /\ attempts[a].pc = "readFailed" /\ connectedDevice = a
        /\ deviceID = NotAvailable
        /\ imuData = ImuFrame /\ laserData = LaserFrame /\ weightData = One
        /\ InflightTotal > 0

Two == Float32(0, 0, 0, 64)

\* The floats of a buffer whose length is a multiple of 4, four bytes each,
\* least significant byte first.
FloatsOf(b) ==
    [i \in 1..(Len(b) \div 4) |-> Float32(b[4 * i - 3], b[4 * i - 2], b[4 * i - 1], b[4 * i])]

\* C19: a callback whose buffer decodes (IMU and Range: a whole number of
\* floats; Weight: at least 4 bytes) replaces the slot of its channel by the
\* floats of that buffer, whatever the slot held, and changes no other slot
\* and not connectedDevice.
C19_LastFrameWins ==
    [][\A a \in Attempts, b \in Buffers :
          /\ (Len(b) % 4 = 0 /\ ImuCallback(a, FALSE, ValueChar(Base64Encode(b))))
             => /\ imuData' = FloatsOf(b)
                /\ UNCHANGED <<laserData, weightData, deviceID, connectedDevice>>
          /\ (Len(b) % 4 = 0 /\ LaserCallback(a, FALSE, ValueChar(Base64Encode(b))))
             => /\ laserData' = FloatsOf(b)
                /\ UNCHANGED <<imuData, weightData, deviceID, connectedDevice>>
          /\ (Len(b) >= 4 /\ WeightCallback(a, FALSE, ValueChar(Base64Encode(b))))
             => /\ weightData' = FloatsOf(b)[1]
                /\ UNCHANGED <<imuData, laserData, deviceID, connectedDevice>>]_vars

\* C19 witness: the IMU slot holds a frame that starts with 2.0, the Range
\* slot one that starts with 1.0 and the Weight slot 2.0, and a further
\* notification is pending.
C19_Witness ==
    /\ Len(imuData) = ImuFloats /\ imuData[1] = Two
    /\ Len(laserData) = LaserFloats /\ laserData[1] = One
    /\ weightData = Two
    /\ connectedDevice # NoDevice /\ InflightTotal > 0

\* C20: a scan callback that reports an error leaves isScanning false, adds
\* nothing to allDevices, and starts nothing: no permission request and no
\* timer is added by it, and a new scan session begins only with a press of
\* the Scan button.
C20_ScanErrorEndsSession ==
    [][/\ \A device \in ScanDevices :
             ScanCallback(TRUE, device)
             => /\ mounted => ~isScanning'
                /\ allDevices' = allDevices
                /\ permPending' = permPending /\ scanTimers' = scanTimers
       /\ permPending' > permPending => ScanPress]_vars

\* C20 witness: a scan that had listed one device has reported an error: the
\* flag is clear and the scan is off while the timer of the session is
\* still pending.
C20_Witness ==
    /\ mounted /\ ~isScanning /\ ~nativeScan
    /\ scanTimers = 1 /\ permPending = 0
    /\ Len(allDevices) = 1 /\ attempts = <<>>

\* C21: a tap on the device list (the start of a connection attempt) and the
\* firing of the scan timer each leave allDevices empty.
C21_ListDiscarded ==
    [][(\/ \E i \in 1..Len(allDevices) : ConnectPress(i, MaxAttempts)
        \/ ScanTimeout)
          => allDevices' = <<>>]_vars

\* C22: every open transport connection is the one of the device recorded in
\* connectedDevice (so at most one is open).
C22_OpenLinkIsRecorded ==
    \A d \in DeviceIds :
        link[d] => connectedDevice # NoDevice /\ DevId(connectedDevice) = d

\* C23: after a Weight callback of the connected, mounted session has decoded
\* a buffer (at least 4 bytes), the Weight line of the screen shows a value
\* and not "No Weight data yet.".
C23_WeightReceivedIsShown ==
    [][\A a \in Attempts, b \in {ZERO_LE, ONE_LE} :
          (/\ mounted /\ connectedDevice = a
           /\ WeightCallback(a, FALSE, ValueChar(Base64Encode(b))))
          => WeightShown(weightData')]_vars

====
